---- MODULE Spec2Model ----
(***************************************************************************)
(* A model of the aircraft position relay: the SBS-1 decoder (sbs1.py),    *)
(* the topic sanitizer (utils/__init__.py), the Adapter pipeline of        *)
(* main.py (reader thread, bounded queue, publisher thread) and the        *)
(* pipeline and watchdog of legacy-main.py.                                *)
(*                                                                         *)
(* Text is a sequence of one-character strings.  A Python value that may   *)
(* be None is a sequence of length 0 (None) or 1 (the value).              *)
(***************************************************************************)
EXTENDS Integers, Sequences, FiniteSets, TLC

\* ------------------------------------------------------------------ bounds

\* Feed lines the reader takes from the socket in one run.
MaxLines == 3
\* Last clock reading (seconds) of a run of main.py.
MaxTime == 5
\* Last clock reading (seconds) of a run of legacy-main.py.
MaxLegacyTime == 1200
\* Feed lines the legacy reader takes from the socket in one run.
MaxLegacyLines == 3
\* queue.Queue(maxsize=100000), scaled down so that a full queue is reached.
QueueMaxSize == 2
\* The longest text the decoder and sanitize_topic are applied to, in tokens.
MaxTokens == 3
\* The last clock reading of a run with the statistics thread.
MaxAdapterTime == 60
\* The last clock reading of a run that outlasts the 15 minutes of
\* flights_cache.
MaxWindowTime == 901
\* The last clock reading of a run of legacy-main.py with its statistics
\* threads.
MaxLegacyStatsTime == 600

\* ------------------------------------------------------- program constants

\* time.sleep(5) before the reader connects again.
ReconnectDelay == 5
\* The debounce window of test_debouncing, in seconds.
DebounceSeconds == 5
\* time.sleep(60) of the legacy watchdog.
WatchdogPeriod == 60
\* 10 * 60: the staleness after which the legacy watchdog exits.
WatchdogTimeout == 600
\* message_expiry_interval=10 of a location publish.
MessageExpiry == 10

\* ----------------------------------------------------------- Python values

None == <<>>
Some(v) == <<v>>
IsNone(o) == o = <<>>
Val(o) == o[1]

\* ------------------------------------------------------------------- text

Whitespace == {" ", "\n", "\r", "\t"}
Digits == <<"0", "1", "2", "3", "4", "5", "6", "7", "8", "9">>
DigitSet == {Digits[i] : i \in 1..10}
DigitVal(c) == (CHOOSE i \in 1..10 : Digits[i] = c) - 1

RECURSIVE lstrip(_)
lstrip(s) ==
    IF s # <<>> /\ Head(s) \in Whitespace THEN lstrip(Tail(s)) ELSE s

RECURSIVE rstrip(_)
rstrip(s) ==
    IF s # <<>> /\ s[Len(s)] \in Whitespace
    THEN rstrip(SubSeq(s, 1, Len(s) - 1))
    ELSE s

\* str.split(','): the fields between the commas, at least one field.
RECURSIVE split(_)
split(s) ==
    IF \E i \in 1..Len(s) : s[i] = ","
    THEN LET i == CHOOSE k \in 1..Len(s) :
                     s[k] = "," /\ \A j \in 1..(k - 1) : s[j] # ","
         IN  <<SubSeq(s, 1, i - 1)>> \o split(SubSeq(s, i + 1, Len(s)))
    ELSE <<s>>

\* ','.join(fields)
RECURSIVE join(_)
join(fields) ==
    IF Len(fields) = 0 THEN <<>>
    ELSE IF Len(fields) = 1 THEN fields[1]
    ELSE fields[1] \o <<",">> \o join(Tail(fields))

RECURSIVE Concat(_)
Concat(parts) ==
    IF parts = <<>> THEN <<>> ELSE Head(parts) \o Concat(Tail(parts))

\* int(text) of a run of decimal digits.
RECURSIVE DigitsToNat(_)
DigitsToNat(s) ==
    IF s = <<>> THEN 0
    ELSE 10 * DigitsToNat(SubSeq(s, 1, Len(s) - 1)) + DigitVal(s[Len(s)])

\* str(n) of a natural number.
RECURSIVE NatToDigits(_)
NatToDigits(n) ==
    IF n < 10 THEN <<Digits[n + 1]>>
    ELSE NatToDigits(n \div 10) \o <<Digits[(n % 10) + 1]>>

AllDigits(s) == \A i \in 1..Len(s) : s[i] \in DigitSet

RECURSIVE StripTrailingZeros(_)
StripTrailingZeros(s) ==
    IF s # <<>> /\ s[Len(s)] = "0"
    THEN StripTrailingZeros(SubSeq(s, 1, Len(s) - 1))
    ELSE s

\* --------------------------------------------------------- sbs1.py decoder

\* array[index] with Python's 0-based index; IndexError is InRange = FALSE.
InRange(array, index) == index + 1 \in 1..Len(array)

parse_string(array, index) ==
    IF ~InRange(array, index) THEN None
    ELSE IF Len(array[index + 1]) = 0 THEN None
    ELSE Some(array[index + 1])

\* int(text): surrounding whitespace and one sign allowed, then digits only.
\* The value is [neg, n]; ValueError is None.
IntOfText(text) ==
    LET t == rstrip(lstrip(text))
        signed == t # <<>> /\ Head(t) \in {"-", "+"}
        body == IF signed THEN Tail(t) ELSE t
    IN  IF body # <<>> /\ AllDigits(body)
        THEN Some([neg |-> signed /\ Head(t) = "-" /\ DigitsToNat(body) # 0,
                   n |-> DigitsToNat(body)])
        ELSE None

parse_int(array, index) ==
    IF ~InRange(array, index) THEN None ELSE IntOfText(array[index + 1])

parse_bool(array, index) ==
    IF ~InRange(array, index) THEN None
    ELSE LET v == IntOfText(array[index + 1])
         IN  IF IsNone(v) THEN None ELSE Some(Val(v).n # 0)

\* float(text) for plain decimal text: surrounding whitespace, one sign,
\* digits, at most one point.  The value is [neg, int, frac] with frac the
\* fraction digits without trailing zeros; ValueError is None.
FloatOfText(text) ==
    LET t == rstrip(lstrip(text))
        signed == t # <<>> /\ Head(t) \in {"-", "+"}
        body == IF signed THEN Tail(t) ELSE t
        hasPoint == \E i \in 1..Len(body) : body[i] = "."
        p == IF hasPoint THEN CHOOSE i \in 1..Len(body) : body[i] = "."
             ELSE Len(body) + 1
        ip == SubSeq(body, 1, p - 1)
        fp == SubSeq(body, p + 1, Len(body))
    IN  IF AllDigits(ip) /\ AllDigits(fp) /\ Len(ip) + Len(fp) > 0
        THEN Some([neg |-> signed /\ Head(t) = "-",
                   int |-> DigitsToNat(ip),
                   frac |-> StripTrailingZeros(fp)])
        ELSE None

parse_float(array, index) ==
    IF ~InRange(array, index) THEN None ELSE FloatOfText(array[index + 1])

\* f"{x}" of a float: repr, the shortest decimal text that reads back.
FloatToText(f) ==
    (IF f.neg THEN <<"-">> ELSE <<>>) \o NatToDigits(f.int) \o <<".">>
        \o (IF f.frac = <<>> THEN <<"0">> ELSE f.frac)

\* Mutant: the test of line 63 is left out; any line with a first field is
\* taken for a record.
parseAnyType(msg) ==
    LET parts == split(rstrip(lstrip(msg)))
    IN  IF IsNone(parse_string(parts, 0)) THEN None
        ELSE Some([messageType |-> parse_string(parts, 0),
                   icao24 |-> parse_string(parts, 4),
                   callsign |-> parse_string(parts, 10),
                   lat |-> parse_float(parts, 14),
                   lon |-> parse_float(parts, 15)])

\* sbs1.parse: None, or the record of the fields.  generatedDate and
\* loggedDate (dateutil) are left out: nothing in the pipeline reads them.
parse(msg) ==
    LET parts == split(rstrip(lstrip(msg)))
        cs == parse_string(parts, 10)
    IN  IF parse_string(parts, 0) # Some(<<"M", "S", "G">>) THEN None
        ELSE Some([messageType |-> parse_string(parts, 0),
                   transmissionType |-> parse_int(parts, 1),
                   sessionID |-> parse_string(parts, 2),
                   aircraftID |-> parse_string(parts, 3),
                   icao24 |-> parse_string(parts, 4),
                   flightID |-> parse_string(parts, 5),
                   callsign |-> IF ~IsNone(cs) THEN Some(rstrip(Val(cs)))
                                ELSE cs,
                   altitude |-> parse_int(parts, 11),
                   groundSpeed |-> parse_float(parts, 12),
                   track |-> parse_float(parts, 13),
                   lat |-> parse_float(parts, 14),
                   lon |-> parse_float(parts, 15),
                   verticalRate |-> parse_int(parts, 16),
                   squawk |-> parse_int(parts, 17),
                   alert |-> parse_bool(parts, 18),
                   emergency |-> parse_bool(parts, 19),
                   spi |-> parse_bool(parts, 20),
                   onGround |-> parse_bool(parts, 21)])

\* ------------------------------------------------- utils: sanitize_topic

replacements ==
    << <<"+", <<"-">> >>, <<"#", <<"-">> >>, <<" ", <<"-">> >>,
       <<"ä", <<"a", "e">> >>, <<"ö", <<"o", "e">> >>, <<"ü", <<"u", "e">> >>,
       <<"Ä", <<"A", "e">> >>, <<"Ö", <<"O", "e">> >>, <<"Ü", <<"U", "e">> >>,
       <<"ß", <<"s", "s">> >> >>

\* Mutant: only the first occurrence is replaced, as str.replace(.., .., 1).
RECURSIVE replaceFirst(_, _, _)
replaceFirst(s, char, replacement) ==
    IF s = <<>> THEN <<>>
    ELSE IF Head(s) = char THEN replacement \o Tail(s)
    ELSE <<Head(s)>> \o replaceFirst(Tail(s), char, replacement)

\* str.replace(char, replacement) for a one-character pattern.
RECURSIVE replace(_, _, _)
replace(s, char, replacement) ==
    IF s = <<>> THEN <<>>
    ELSE (IF Head(s) = char THEN replacement ELSE <<Head(s)>>)
             \o replace(Tail(s), char, replacement)

RECURSIVE ReplaceAll(_, _)
ReplaceAll(topic, reps) ==
    IF reps = <<>> THEN topic
    ELSE ReplaceAll(replace(topic, Head(reps)[1], Head(reps)[2]), Tail(reps))

sanitize_topic(topic) == ReplaceAll(topic, replacements)

\* ------------------------------------------------------------ containers

\* dict[key] = value
DictSet(d, key, value) ==
    [k \in (DOMAIN d) \cup {key} |-> IF k = key THEN value ELSE d[k]]

\* cachetools.TTLCache as key -> expiry time.  An entry is live at time t
\* while t < expires.  The maxsize of 100,000 entries is never reached here.
CacheExpire(cache, t) ==
    [k \in {x \in DOMAIN cache : t < cache[x]} |-> cache[k]]

\* cache[key] = None at time t
CacheSet(cache, key, t, ttl) == DictSet(CacheExpire(cache, t), key, t + ttl)

\* len(cache) at time t
CacheLen(cache, t) == Cardinality({k \in DOMAIN cache : t < cache[k]})

FlightsTtl == 900
MessagesTtl == 60
\* time.sleep(60) of publish_stats.
StatsPeriod == 60
\* time.sleep(5) of the legacy get_stats.
LegacyStatsPeriod == 5

\* ------------------------------------------------------------ the feed

MSG == <<"M", "S", "G">>
IcaoA == <<"A", "1">>
IcaoB == <<"B", "2">>

\* One newline-terminated feed line of 22 fields.
FeedLine(kind, icao, callsign, lat, lon) ==
    join(<<kind, <<"3">>, <<"1">>, <<"1">>, icao, <<"1">>,
           <<"d">>, <<"t">>, <<"d">>, <<"t">>, callsign, <<"9", "0">>,
           <<"2", ".", "5">>, <<"9">>, lat, lon, <<>>, <<"-", "1", "2">>,
           <<>>, <<>>, <<"0">>, <<"1">> >>) \o <<"\n">>

\* A1, callsign "T+1", both coordinates.
LineFullA == FeedLine(MSG, IcaoA, <<"T", "+", "1">>,
                      <<"5", "1", ".", "5">>, <<"-", "0", ".", "1">>)
\* A1, no callsign, both coordinates, written with trailing zeros.
LinePosA == FeedLine(MSG, IcaoA, <<>>,
                     <<"5", "1", ".", "6", "0">>, <<"-", "0", ".", "1", "3">>)
\* A1, a callsign of blanks only, both coordinates.
LineBlankA == FeedLine(MSG, IcaoA, <<" ", " ">>,
                       <<"5", "2">>, <<"0", ".", "5">>)
\* B2, callsign "U2" padded with a blank, latitude only.
LineIdentB == FeedLine(MSG, IcaoB, <<"U", "2", " ">>, <<"7">>, <<>>)
\* B2, no callsign, both coordinates.
LinePosB == FeedLine(MSG, IcaoB, <<>>, <<"7", ".", "2", "5">>, <<"8">>)
\* Not a MSG line.
LineSta == FeedLine(<<"S", "T", "A">>, IcaoA, <<"T", "+", "1">>,
                    <<"5", "1", ".", "5">>, <<"-", "0", ".", "1">>)

\* A byte that is not valid UTF-8 stands in the callsign field.
InvalidBytes == {"0xFF"}
LineBad == FeedLine(MSG, IcaoA, <<"0xFF">>,
                    <<"5", "1", ".", "5">>, <<"-", "0", ".", "1">>)

\* Whether data.decode('utf-8') raises UnicodeDecodeError.
Undecodable(data) == \E i \in 1..Len(data) : data[i] \in InvalidBytes

Lines == {LineFullA, LinePosA, LineBlankA, LineIdentB, LinePosB, LineSta}

\* The lines the legacy reader is fed.
LegacyLines == {LineFullA, LineIdentB}

\* The first 16 fields of LineFullA: a MSG line cut after the longitude.
LineShortA == join(<<MSG, <<"3">>, <<"1">>, <<"1">>, IcaoA, <<"1">>,
                     <<"d">>, <<"t">>, <<"d">>, <<"t">>, <<"T", "+", "1">>,
                     <<"9", "0">>, <<"2", ".", "5">>, <<"9">>,
                     <<"5", "1", ".", "5">>, <<"-", "0", ".", "1">> >>)
                  \o <<"\n">>
\* A line of the one field MSG.
LineMsgOnly == MSG \o <<"\n">>
\* 22 fields, an empty icao24 field, callsign "T+1", both coordinates.
LineNoIdent == FeedLine(MSG, <<>>, <<"T", "+", "1">>,
                        <<"5", "1", ".", "5">>, <<"-", "0", ".", "1">>)

\* The lines the reader is fed in a run with malformed lines.
MalformedLines == {LineFullA, LineShortA, LineMsgOnly, LineNoIdent}

\* parse(data.decode('utf-8')) of every line of the feed.
Decoded ==
    [line \in Lines \cup LegacyLines \cup MalformedLines |-> parse(line)]

\* ----------------------------------------------------------------- state

VARIABLES
    now,                 \* time.time(), in seconds
    running,             \* Adapter.running
    callsigns,           \* Adapter.callsigns: icao24 -> callsign
    flights_cache,       \* Adapter.flights_cache: icao24 -> expiry
    messages_cache,      \* Adapter.messages_cache: key -> expiry
    location_queue,      \* Adapter.location_queue
    rd_pc,               \* where the reader thread is
    rd_wake,             \* when the reader's time.sleep(5) ends
    rd_pending,          \* the event of a put() that blocks on a full queue
    rd_fails,            \* connect failures in a row
    lines_read,          \* feed lines taken from the socket so far
    pub_pc,              \* where the publisher thread is
    sent,                \* the calls made to the publish collaborator
    pushed,              \* every event put on the queue, in order
    popped,              \* every event taken from the queue, in order
    accepted,            \* every record the decoder accepted, in order
    accepted_at,         \* the clock reading at which each of them was accepted
    last_successful_message,   \* legacy-main.py's global
    failed_messages_cache,     \* legacy-main.py's failed_messages_cache
    uuid_next,           \* the next uuid.uuid4() of legacy-main.py
    wd_wake,             \* when the legacy watchdog's time.sleep(60) ends
    exited,              \* os._exit(1) was called
    rd_error,            \* what the handler of lines 149-150 last caught on this connection
    st_pc,               \* where the statistics thread is
    st_wake,             \* when the statistics thread's time.sleep(60) ends
    stats_sent,          \* the send_msg calls of each statistics cycle
    fn_in,               \* the text a function is applied to
    fn_pc,               \* which function was applied to fn_in
    fn_parsed,           \* the result of parse
    fn_topic             \* the result of sanitize_topic

vars == <<now, running, callsigns, flights_cache, messages_cache,
          location_queue, rd_pc, rd_wake, rd_pending, rd_fails, lines_read,
          pub_pc, sent, pushed, popped, accepted, accepted_at, last_successful_message,
          failed_messages_cache, uuid_next, wd_wake, exited,
          rd_error, st_pc, st_wake, stats_sent,
          fn_in, fn_pc, fn_parsed, fn_topic>>

legacy_vars == <<last_successful_message, failed_messages_cache, uuid_next,
                 wd_wake, exited>>

stats_vars == <<st_pc, st_wake, stats_sent>>

adapter_vars == <<rd_error, stats_vars>>

program_vars_but_stats ==
    <<now, running, callsigns, flights_cache, messages_cache,
      location_queue, rd_pc, rd_wake, rd_pending, rd_fails, lines_read,
      pub_pc, sent, pushed, popped, accepted, accepted_at, legacy_vars, rd_error>>

program_vars == <<now, running, callsigns, flights_cache, messages_cache,
                  location_queue, rd_pc, rd_wake, rd_pending, rd_fails,
                  lines_read, pub_pc, sent, pushed, popped, accepted, accepted_at,
                  legacy_vars, adapter_vars>>

fn_vars == <<fn_in, fn_pc, fn_parsed, fn_topic>>

EmptyDict == [k \in {} |-> 0]

ProgramInit ==
    /\ now = 0
    /\ running = TRUE
    /\ callsigns = EmptyDict
    /\ flights_cache = EmptyDict
    /\ messages_cache = EmptyDict
    /\ location_queue = <<>>
    /\ rd_pc = "start"
    /\ rd_wake = 0
    /\ rd_pending = None
    /\ rd_fails = 0
    /\ lines_read = 0
    /\ pub_pc = "loop"
    /\ sent = <<>>
    /\ pushed = <<>>
    /\ popped = <<>>
    /\ accepted = <<>>
    /\ accepted_at = <<>>
    /\ last_successful_message = None
    /\ failed_messages_cache = EmptyDict
    /\ uuid_next = 0
    /\ wd_wake = WatchdogPeriod
    /\ exited = FALSE
    /\ rd_error = "none"
    /\ st_pc = "start"
    /\ st_wake = 0
    /\ stats_sent = <<>>
    /\ fn_pc = "idle"
    /\ fn_parsed = None
    /\ fn_topic = <<>>

Init == ProgramInit /\ fn_in = <<>>

\* ------------------------------------------------- main.py: reader thread

\* Lines 131-143 for one decoded record: the new callsigns, the callsign
\* now known for the record's icao24 and the new flights_cache.
Observe(rec) ==
    LET icao24 == rec.icao24
        cs1 == IF ~IsNone(rec.callsign)
               THEN DictSet(callsigns, icao24, Val(rec.callsign))
               ELSE callsigns
        callsign == IF icao24 \in DOMAIN cs1 THEN Some(cs1[icao24]) ELSE None
    IN  [callsigns |-> cs1,
         callsign |-> callsign,
         flights_cache |-> IF ~IsNone(callsign)
                           THEN CacheSet(flights_cache, icao24, now, FlightsTtl)
                           ELSE flights_cache]

\* Line 145: whether the record is put on the queue.
Eligible(lat, lon, callsign) ==
    ~IsNone(lat) /\ ~IsNone(lon) /\ ~IsNone(callsign)

\* Line 146: the dict put on the queue.  n tags it with the number of the
\* feed line it came from (the identity of the dict object).
Location(rec, callsign, n) ==
    [icao24 |-> rec.icao24, callsign |-> callsign,
     lat |-> rec.lat, lon |-> rec.lon, n |-> n]

\* Mutant: a queue made without maxsize never blocks.
HasRoomUnbounded(q) == TRUE

\* queue.Queue(maxsize=...): whether put() returns without blocking.
HasRoom(q) == Len(q) < QueueMaxSize

\* Line 113, first pass: the thread starts.
ReaderStart ==
    /\ rd_pc = "start"
    /\ rd_pc' = IF running THEN "connecting" ELSE "done"
    /\ UNCHANGED <<now, running, callsigns, flights_cache, messages_cache,
                   location_queue, rd_wake, rd_pending, rd_fails, lines_read,
                   pub_pc, sent, pushed, popped, accepted, accepted_at,
                   legacy_vars>>
    /\ UNCHANGED <<adapter_vars, fn_vars>>

\* Lines 115-118 succeed.
ConnectOk ==
    /\ rd_pc = "connecting"
    /\ rd_pc' = "reading"
    /\ rd_fails' = 0
    /\ rd_error' = "none"
    /\ UNCHANGED <<now, running, callsigns, flights_cache, messages_cache,
                   location_queue, rd_wake, rd_pending, lines_read,
                   pub_pc, sent, pushed, popped, accepted, accepted_at,
                   legacy_vars>>
    /\ UNCHANGED <<stats_vars, fn_vars>>

\* Lines 115-118 raise: lines 155-157 log it and sleep.
ConnectFail ==
    /\ rd_pc = "connecting"
    /\ rd_pc' = "sleep_error"
    /\ rd_wake' = now + ReconnectDelay
    /\ rd_fails' = rd_fails + 1
    /\ UNCHANGED <<now, running, callsigns, flights_cache, messages_cache,
                   location_queue, rd_pending, lines_read,
                   pub_pc, sent, pushed, popped, accepted, accepted_at,
                   legacy_vars>>
    /\ UNCHANGED <<adapter_vars, fn_vars>>

\* Mutant: the exception of a line leaves the inner loop and reaches the
\* handler of lines 155-157.
OnLineErrorReconnect == "sleep_error"

\* Lines 149-150: where the reader goes on after the exception of a line
\* was logged.
OnLineError == "reading"

\* Lines 120-150: one pass of the inner loop over a line that was read.  A
\* line that does not decode raises at line 127 and is logged by lines
\* 149-150.  A put() on a full queue blocks: the thread waits in "putting".
ReadLine(line) ==
    /\ rd_pc = "reading"
    /\ running
    /\ lines_read < MaxLines
    /\ lines_read' = lines_read + 1
    /\ IF Undecodable(line)
       THEN /\ rd_pc' = OnLineError
            /\ rd_error' = "decode"
            /\ UNCHANGED <<callsigns, flights_cache, location_queue,
                           rd_pending, pushed, accepted, accepted_at>>
       ELSE
       /\ UNCHANGED rd_error
       /\ LET parsed_data == Decoded[line]
          IN  IF IsNone(parsed_data)
           THEN UNCHANGED <<callsigns, flights_cache, location_queue, rd_pc,
                            rd_pending, pushed, accepted, accepted_at>>
           ELSE LET rec == Val(parsed_data)
                    o == Observe(rec)
                    location == Location(rec, o.callsign, lines_read + 1)
                IN  /\ callsigns' = o.callsigns
                    /\ flights_cache' = o.flights_cache
                    /\ accepted_at' = Append(accepted_at, now)
                    /\ accepted' = Append(accepted,
                                          Location(rec, rec.callsign,
                                                   lines_read + 1))
                    /\ IF ~Eligible(rec.lat, rec.lon, o.callsign)
                       THEN UNCHANGED <<location_queue, rd_pc, rd_pending,
                                        pushed>>
                       ELSE IF HasRoom(location_queue)
                       THEN /\ location_queue' =
                                   Append(location_queue, location)
                            /\ pushed' = Append(pushed, location)
                            /\ UNCHANGED <<rd_pc, rd_pending>>
                       ELSE /\ rd_pc' = "putting"
                            /\ rd_pending' = Some(location)
                            /\ UNCHANGED <<location_queue, pushed>>
    /\ UNCHANGED <<now, running, messages_cache, rd_wake, rd_fails,
                   pub_pc, sent, popped, legacy_vars>>
    /\ UNCHANGED <<stats_vars, fn_vars>>

\* Line 146 returns once the queue has room.
Put ==
    /\ rd_pc = "putting"
    /\ HasRoom(location_queue)
    /\ location_queue' = Append(location_queue, Val(rd_pending))
    /\ pushed' = Append(pushed, Val(rd_pending))
    /\ rd_pending' = None
    /\ rd_pc' = "reading"
    /\ UNCHANGED <<now, running, callsigns, flights_cache, messages_cache,
                   rd_wake, rd_fails, lines_read, pub_pc, sent, popped,
                   accepted, accepted_at, legacy_vars>>
    /\ UNCHANGED <<adapter_vars, fn_vars>>

\* Mutant: after a zero-length read the reader connects again at once.
ReadEOFNoDelay ==
    /\ rd_pc = "reading"
    /\ running
    /\ rd_pc' = "connecting"
    /\ UNCHANGED <<now, running, callsigns, flights_cache, messages_cache,
                   location_queue, rd_wake, rd_pending, rd_fails, lines_read,
                   pub_pc, sent, pushed, popped, accepted, accepted_at, legacy_vars>>
    /\ UNCHANGED <<adapter_vars, fn_vars>>

\* Lines 122-125, 152-153: a zero-length read ends the inner loop.
ReadEOF ==
    /\ rd_pc = "reading"
    /\ running
    /\ rd_pc' = "sleep_closed"
    /\ rd_wake' = now + ReconnectDelay
    /\ UNCHANGED <<now, running, callsigns, flights_cache, messages_cache,
                   location_queue, rd_pending, rd_fails, lines_read,
                   pub_pc, sent, pushed, popped, accepted, accepted_at,
                   legacy_vars>>
    /\ UNCHANGED <<adapter_vars, fn_vars>>

\* Lines 120, 152-153: the inner loop sees running = False.
ReadStop ==
    /\ rd_pc = "reading"
    /\ ~running
    /\ rd_pc' = "sleep_closed"
    /\ rd_wake' = now + ReconnectDelay
    /\ UNCHANGED <<now, running, callsigns, flights_cache, messages_cache,
                   location_queue, rd_pending, rd_fails, lines_read,
                   pub_pc, sent, pushed, popped, accepted, accepted_at,
                   legacy_vars>>
    /\ UNCHANGED <<adapter_vars, fn_vars>>

\* time.sleep(5) of line 153 or 157 is over; line 113 tests running.
ReaderWake ==
    /\ rd_pc \in {"sleep_closed", "sleep_error"}
    /\ now >= rd_wake
    /\ rd_pc' = IF running THEN "connecting" ELSE "done"
    /\ rd_wake' = 0
    /\ UNCHANGED <<now, running, callsigns, flights_cache, messages_cache,
                   location_queue, rd_pending, rd_fails, lines_read,
                   pub_pc, sent, pushed, popped, accepted, accepted_at,
                   legacy_vars>>
    /\ UNCHANGED <<adapter_vars, fn_vars>>

\* ---------------------------------------------- main.py: publisher thread

\* Adapter.base_topic: f"{gcmb_org}/{gcmb_project}", here "o/p".
base_topic == <<"o", "/", "p">>

\* Mutant: the topic is built from the callsign the reader knows now for
\* the aircraft, not from the one the event carries.
LocationCallCurrent(location) ==
    LET sanitized_callsign == sanitize_topic(callsigns[location.icao24])
    IN  [payload |-> FloatToText(Val(location.lat)) \o <<",">>
                         \o FloatToText(Val(location.lon)),
         topic |-> Concat(<<base_topic,
                            <<"/", "f", "l", "i", "g", "h", "t", "s", "/">>,
                            sanitized_callsign,
                            <<"/", "l", "o", "c", "a", "t", "i", "o", "n">> >>),
         retain |-> TRUE,
         message_expiry_interval |-> Some(MessageExpiry)]

\* Lines 171-181: the send_msg call made for a dequeued location.
LocationCall(location) ==
    LET sanitized_callsign == sanitize_topic(Val(location.callsign))
    IN  [payload |-> FloatToText(Val(location.lat)) \o <<",">>
                         \o FloatToText(Val(location.lon)),
         topic |-> Concat(<<base_topic,
                            <<"/", "f", "l", "i", "g", "h", "t", "s", "/">>,
                            sanitized_callsign,
                            <<"/", "l", "o", "c", "a", "t", "i", "o", "n">> >>),
         retain |-> TRUE,
         message_expiry_interval |-> Some(MessageExpiry)]

\* Mutant: a queue.LifoQueue hands out the newest element.
GetIndexLifo(q) == Len(q)

\* queue.get(): which element of the queue is taken.
GetIndex(q) == 1

\* The queue without the element taken.
Without(q, i) == SubSeq(q, 1, i - 1) \o SubSeq(q, i + 1, Len(q))

\* Mutant: one debounce timer for all aircraft instead of one per id.
ForwardsGlobalDebounce(location) ==
    \A k \in 1..Len(sent) : now - sent[k].at >= DebounceSeconds

\* Whether this pass of publish_locations calls send_msg for the location.
Forwards(location) == TRUE

\* Mutant: the handler puts the event of a failed send_msg back on the queue.
OnPublishErrorRequeue(q, location) == Append(q, location)

\* Lines 187-188: the queue after the handler of a failed send_msg, which
\* only logs.
OnPublishError(q, location) == q

\* Lines 163-188: one pass of the loop that gets a location.  send_msg
\* returns (ok) or raises; a raise is logged by lines 187-188.
PublishLocation(ok) ==
    /\ pub_pc = "loop"
    /\ running
    /\ location_queue # <<>>
    /\ LET i == GetIndex(location_queue)
           location == location_queue[i]
       IN  /\ location_queue' =
                  IF ok THEN Without(location_queue, i)
                  ELSE OnPublishError(Without(location_queue, i), location)
           /\ popped' = Append(popped, location)
           /\ IF Forwards(location)
              THEN /\ sent' = Append(sent,
                              [call |-> LocationCall(location), ev |-> location,
                               at |-> now])
                   /\ messages_cache' =
                          IF ok THEN CacheSet(messages_cache, now, now, MessagesTtl)
                          ELSE messages_cache
              ELSE UNCHANGED <<sent, messages_cache>>
    /\ UNCHANGED <<now, running, callsigns, flights_cache, rd_pc, rd_wake,
                   rd_pending, rd_fails, lines_read, pub_pc, pushed, accepted, accepted_at,
                   legacy_vars>>
    /\ UNCHANGED <<adapter_vars, fn_vars>>

\* Line 163 sees running = False.
PublisherStop ==
    /\ pub_pc = "loop"
    /\ ~running
    /\ pub_pc' = "done"
    /\ UNCHANGED <<now, running, callsigns, flights_cache, messages_cache,
                   location_queue, rd_pc, rd_wake, rd_pending, rd_fails,
                   lines_read, sent, pushed, popped, accepted, accepted_at,
                   legacy_vars>>
    /\ UNCHANGED <<adapter_vars, fn_vars>>

\* ------------------------------------------------- main.py: main thread

\* Lines 105-107: KeyboardInterrupt in Adapter.start.
Shutdown ==
    /\ running
    /\ running' = FALSE
    /\ UNCHANGED <<now, callsigns, flights_cache, messages_cache,
                   location_queue, rd_pc, rd_wake, rd_pending, rd_fails,
                   lines_read, pub_pc, sent, pushed, popped, accepted, accepted_at,
                   legacy_vars>>
    /\ UNCHANGED <<adapter_vars, fn_vars>>

\* ------------------------------------------------------------------ time

\* The clock readings a run passes through lie 5 seconds apart.
TickSteps == {5}

\* An expired entry is invisible to every operation of a TTLCache, so the
\* caches drop it as the clock moves.
Tick ==
    /\ \E d \in TickSteps :
           /\ now + d <= MaxTime
           /\ now' = now + d
    /\ flights_cache' = CacheExpire(flights_cache, now')
    /\ messages_cache' = CacheExpire(messages_cache, now')
    /\ UNCHANGED <<running, callsigns, location_queue, rd_pc, rd_wake,
                   rd_pending, rd_fails, lines_read, pub_pc, sent, pushed,
                   popped, accepted, accepted_at, legacy_vars>>
    /\ UNCHANGED <<adapter_vars, fn_vars>>

Next ==
    \/ ReaderStart
    \/ ConnectOk
    \/ ConnectFail
    \/ \E line \in Lines : ReadLine(line)
    \/ Put
    \/ ReadEOF
    \/ ReadStop
    \/ ReaderWake
    \/ \E ok \in BOOLEAN : PublishLocation(ok)
    \/ PublisherStop
    \/ Shutdown
    \/ Tick

Spec == Init /\ [][Next]_vars

\* main.py fed with short lines and lines without an aircraft id.
MalformedNext ==
    \/ ReaderStart
    \/ ConnectOk
    \/ ConnectFail
    \/ \E line \in MalformedLines : ReadLine(line)
    \/ Put
    \/ ReadEOF
    \/ ReadStop
    \/ ReaderWake
    \/ \E ok \in BOOLEAN : PublishLocation(ok)
    \/ PublisherStop
    \/ Shutdown
    \/ Tick

MalformedSpec == Init /\ [][MalformedNext]_vars

\* ------------------------------ main.py: read errors and statistics thread

\* Lines 122, 149-150: readline() raises; the handler logs it and the inner
\* loop goes on with the same file object.
ReadError ==
    /\ rd_pc = "reading"
    /\ running
    /\ rd_error' = "read"
    /\ UNCHANGED <<now, running, callsigns, flights_cache, messages_cache,
                   location_queue, rd_pc, rd_wake, rd_pending, rd_fails,
                   lines_read, pub_pc, sent, pushed, popped, accepted, accepted_at,
                   legacy_vars, stats_vars, fn_vars>>

StatsTopic(name) == base_topic \o <<"/", "s", "t", "a", "t", "s", "/">> \o name

\* Mutant: the payloads of queue_size and messages_per_minute are swapped.
StatsCallsSwapped(flights_seen, queue_size, messages_per_minute) ==
    << [payload |-> NatToDigits(flights_seen),
        topic |-> StatsTopic(<<"f", "l", "i", "g", "h", "t", "s", "_",
                               "s", "e", "e", "n", "_", "i", "n", "_",
                               "l", "a", "s", "t", "_", "1", "5", "m">>),
        retain |-> TRUE],
       [payload |-> NatToDigits(messages_per_minute),
        topic |-> StatsTopic(<<"q", "u", "e", "u", "e", "_",
                               "s", "i", "z", "e">>),
        retain |-> TRUE],
       [payload |-> NatToDigits(queue_size),
        topic |-> StatsTopic(<<"m", "e", "s", "s", "a", "g", "e", "s", "_",
                               "p", "e", "r", "_",
                               "m", "i", "n", "u", "t", "e">>),
        retain |-> TRUE] >>

\* Lines 204-206: the three send_msg calls of one statistics cycle.
StatsCalls(flights_seen, queue_size, messages_per_minute) ==
    << [payload |-> NatToDigits(flights_seen),
        topic |-> StatsTopic(<<"f", "l", "i", "g", "h", "t", "s", "_",
                               "s", "e", "e", "n", "_", "i", "n", "_",
                               "l", "a", "s", "t", "_", "1", "5", "m">>),
        retain |-> TRUE],
       [payload |-> NatToDigits(queue_size),
        topic |-> StatsTopic(<<"q", "u", "e", "u", "e", "_",
                               "s", "i", "z", "e">>),
        retain |-> TRUE],
       [payload |-> NatToDigits(messages_per_minute),
        topic |-> StatsTopic(<<"m", "e", "s", "s", "a", "g", "e", "s", "_",
                               "p", "e", "r", "_",
                               "m", "i", "n", "u", "t", "e">>),
        retain |-> TRUE] >>

\* Line 194: the loop test of publish_stats; lines 195-196 start the sleep.
StatsLoop ==
    /\ st_pc = "start"
    /\ IF running
       THEN st_pc' = "sleeping" /\ st_wake' = now + StatsPeriod
       ELSE st_pc' = "done" /\ UNCHANGED st_wake
    /\ UNCHANGED <<program_vars_but_stats, stats_sent, fn_vars>>

\* Mutant: the try block encloses the loop, so the exception of a send_msg
\* ends the thread.
OnStatsErrorFatal == "dead"

\* Lines 210-211: where the statistics thread goes on after the exception
\* of a send_msg was logged: the loop test of line 194.
OnStatsError == "start"

\* Lines 196-211: the sleep is over; the three values are read and sent.
\* failed = 0: every send_msg returns; failed = j: the j-th send_msg raises
\* and the calls after it are not made.
PublishStats(failed) ==
    /\ st_pc = "sleeping"
    /\ now >= st_wake
    /\ LET flights_seen == CacheLen(flights_cache, now)
           queue_size == Len(location_queue)
           messages_per_minute == CacheLen(messages_cache, now)
           calls == StatsCalls(flights_seen, queue_size, messages_per_minute)
       IN  stats_sent' = Append(stats_sent,
               [calls |-> SubSeq(calls, 1, IF failed = 0 THEN 3 ELSE failed),
                failed |-> failed])
    /\ st_pc' = IF failed = 0 THEN "start" ELSE OnStatsError
    /\ st_wake' = 0
    /\ UNCHANGED <<program_vars_but_stats, fn_vars>>

\* The clock readings of a run with the statistics thread lie 60 seconds
\* apart; a sleeping thread wakes at the first reading at or after the end
\* of its sleep.
AdapterTickSteps == {60}

AdapterTick ==
    /\ \E d \in AdapterTickSteps :
           /\ now + d <= MaxAdapterTime
           /\ now' = now + d
    /\ flights_cache' = CacheExpire(flights_cache, now')
    /\ messages_cache' = CacheExpire(messages_cache, now')
    /\ UNCHANGED <<running, callsigns, location_queue, rd_pc, rd_wake,
                   rd_pending, rd_fails, lines_read, pub_pc, sent, pushed,
                   popped, accepted, accepted_at, legacy_vars, adapter_vars, fn_vars>>

\* The lines the reader is fed in a run with the statistics thread.
AdapterLines == {LineFullA, LineBad, LineSta}

AdapterNext ==
    \/ ReaderStart
    \/ ConnectOk
    \/ ConnectFail
    \/ \E line \in AdapterLines : ReadLine(line)
    \/ ReadError
    \/ Put
    \/ ReadEOF
    \/ ReadStop
    \/ ReaderWake
    \/ \E ok \in BOOLEAN : PublishLocation(ok)
    \/ PublisherStop
    \/ StatsLoop
    \/ \E failed \in 0..3 : PublishStats(failed)
    \/ Shutdown
    \/ AdapterTick

AdapterSpec == Init /\ [][AdapterNext]_vars

\* ------------------------------- main.py: a run longer than 15 minutes

\* The clock readings of a run that outlasts the 15 minutes of
\* flights_cache lie 15 minutes and one second apart.
WindowTickSteps == {FlightsTtl + 1}

WindowTick ==
    /\ \E d \in WindowTickSteps :
           /\ now + d <= MaxWindowTime
           /\ now' = now + d
    /\ flights_cache' = CacheExpire(flights_cache, now')
    /\ messages_cache' = CacheExpire(messages_cache, now')
    /\ UNCHANGED <<running, callsigns, location_queue, rd_pc, rd_wake,
                   rd_pending, rd_fails, lines_read, pub_pc, sent, pushed,
                   popped, accepted, accepted_at, legacy_vars, adapter_vars,
                   fn_vars>>

\* The lines the reader is fed in such a run.
WindowLines == {LineFullA, LinePosA, LineBlankA}

WindowNext ==
    \/ ReaderStart
    \/ ConnectOk
    \/ ConnectFail
    \/ \E line \in WindowLines : ReadLine(line)
    \/ Put
    \/ ReadEOF
    \/ ReadStop
    \/ ReaderWake
    \/ \E ok \in BOOLEAN : PublishLocation(ok)
    \/ PublisherStop
    \/ StatsLoop
    \/ \E failed \in 0..3 : PublishStats(failed)
    \/ Shutdown
    \/ WindowTick

WindowSpec == Init /\ [][WindowNext]_vars

\* --------------------------------------- legacy-main.py: reader thread

\* Lines 114-117 succeed (first pass, or after the sleep of line 146).
LegacyConnectOk ==
    /\ ~exited
    /\ rd_pc \in {"start", "connecting"}
    /\ rd_pc' = "reading"
    /\ UNCHANGED <<now, running, callsigns, flights_cache, messages_cache,
                   location_queue, rd_wake, rd_pending, rd_fails, lines_read,
                   pub_pc, sent, pushed, popped, accepted, accepted_at,
                   legacy_vars>>
    /\ UNCHANGED <<adapter_vars, fn_vars>>

\* Lines 114-117 raise: nothing catches it and the thread ends.
LegacyConnectFail ==
    /\ ~exited
    /\ rd_pc \in {"start", "connecting"}
    /\ rd_pc' = "dead"
    /\ rd_fails' = rd_fails + 1
    /\ UNCHANGED <<now, running, callsigns, flights_cache, messages_cache,
                   location_queue, rd_wake, rd_pending, lines_read,
                   pub_pc, sent, pushed, popped, accepted, accepted_at,
                   legacy_vars>>
    /\ UNCHANGED <<adapter_vars, fn_vars>>

\* Lines 118-140: one pass of the inner loop over a line that was read.
\* Every decoded record is put on the queue.
LegacyReadLine(line) ==
    /\ ~exited
    /\ rd_pc = "reading"
    /\ lines_read < MaxLegacyLines
    /\ lines_read' = lines_read + 1
    /\ LET parsed_data == Decoded[line]
       IN  IF IsNone(parsed_data)
           THEN UNCHANGED <<callsigns, flights_cache, location_queue, rd_pc,
                            rd_pending, pushed, accepted, accepted_at>>
           ELSE LET rec == Val(parsed_data)
                    o == Observe(rec)
                    location == Location(rec, o.callsign, lines_read + 1)
                IN  /\ callsigns' = o.callsigns
                    /\ flights_cache' = o.flights_cache
                    /\ accepted_at' = Append(accepted_at, now)
                    /\ accepted' = Append(accepted,
                                          Location(rec, rec.callsign,
                                                   lines_read + 1))
                    /\ IF HasRoom(location_queue)
                       THEN /\ location_queue' =
                                   Append(location_queue, location)
                            /\ pushed' = Append(pushed, location)
                            /\ UNCHANGED <<rd_pc, rd_pending>>
                       ELSE /\ rd_pc' = "putting"
                            /\ rd_pending' = Some(location)
                            /\ UNCHANGED <<location_queue, pushed>>
    /\ UNCHANGED <<now, running, messages_cache, rd_wake, rd_fails,
                   pub_pc, sent, popped, legacy_vars>>
    /\ UNCHANGED <<adapter_vars, fn_vars>>

\* Line 140 returns once the queue has room.
LegacyPut ==
    /\ ~exited
    /\ Put

\* Lines 120-123, 145-146: a zero-length read ends the inner loop.
LegacyReadEOF ==
    /\ ~exited
    /\ rd_pc = "reading"
    /\ rd_pc' = "sleep_closed"
    /\ rd_wake' = now + ReconnectDelay
    /\ UNCHANGED <<now, running, callsigns, flights_cache, messages_cache,
                   location_queue, rd_pending, rd_fails, lines_read,
                   pub_pc, sent, pushed, popped, accepted, accepted_at,
                   legacy_vars>>
    /\ UNCHANGED <<adapter_vars, fn_vars>>

\* time.sleep(5) of line 146 is over.
LegacyReaderWake ==
    /\ ~exited
    /\ rd_pc = "sleep_closed"
    /\ now >= rd_wake
    /\ rd_pc' = "connecting"
    /\ rd_wake' = 0
    /\ UNCHANGED <<now, running, callsigns, flights_cache, messages_cache,
                   location_queue, rd_pending, rd_fails, lines_read,
                   pub_pc, sent, pushed, popped, accepted, accepted_at,
                   legacy_vars>>
    /\ UNCHANGED <<adapter_vars, fn_vars>>

\* ------------------------------------ legacy-main.py: publisher thread

\* Lines 160-161, 76: the client.publish call made for a location.
LegacyLocationCall(location) ==
    [payload |-> FloatToText(Val(location.lat)) \o <<",">>
                     \o FloatToText(Val(location.lon)),
     topic |-> Concat(<<<<"a", "d", "s", "b", "/", "a", "d", "s", "b">>,
                        <<"/", "f", "l", "i", "g", "h", "t", "s", "/">>,
                        Val(location.callsign),
                        <<"/", "l", "o", "c", "a", "t", "i", "o", "n">> >>),
     retain |-> TRUE,
     message_expiry_interval |-> None]

\* Mutant: the timestamp is written after every publish, failed or not.
StampAlways(last, successful_publish, t) == Some(t)

\* Lines 162-164: last_successful_message after a location publish.
Stamp(last, successful_publish, t) ==
    IF successful_publish THEN Some(t) ELSE last

\* Lines 149-168 with publish (lines 75-85): one pass of the loop.  The
\* result of client.publish is rc == 0 ("ok"), another rc ("fail") or an
\* exception ("raise").
LegacyPublishLocation(result) ==
    /\ ~exited
    /\ location_queue # <<>>
    /\ LET location == Head(location_queue)
       IN  /\ location_queue' = Tail(location_queue)
           /\ popped' = Append(popped, location)
           /\ IF Eligible(location.lat, location.lon, location.callsign)
              THEN /\ sent' = Append(sent,
                              [call |-> LegacyLocationCall(location),
                               ev |-> location, at |-> now])
                   /\ messages_cache' =
                          IF result = "ok"
                          THEN CacheSet(messages_cache, uuid_next, now,
                                        MessagesTtl)
                          ELSE messages_cache
                   /\ failed_messages_cache' =
                          IF result = "fail"
                          THEN CacheSet(failed_messages_cache, uuid_next, now,
                                        MessagesTtl)
                          ELSE failed_messages_cache
                   /\ uuid_next' =
                          IF result = "raise" THEN uuid_next ELSE uuid_next + 1
                   /\ last_successful_message' =
                          Stamp(last_successful_message, result = "ok", now)
              ELSE UNCHANGED <<sent, messages_cache, failed_messages_cache,
                               uuid_next, last_successful_message>>
    /\ UNCHANGED <<now, running, callsigns, flights_cache, rd_pc, rd_wake,
                   rd_pending, rd_fails, lines_read, pub_pc, pushed,
                   accepted, accepted_at, wd_wake, exited>>
    /\ UNCHANGED <<adapter_vars, fn_vars>>

\* -------------------------------------- legacy-main.py: statistics threads

LegacyStatsTopic(name) ==
    <<"a", "d", "s", "b", "/", "a", "d", "s", "b", "/",
      "s", "t", "a", "t", "s", "/">> \o name

\* Lines 181-183: the three publish calls for one statistics message.
LegacyStatsCalls(flights_seen, queue_size, messages_per_minute) ==
    << [payload |-> NatToDigits(flights_seen),
        topic |-> LegacyStatsTopic(<<"f", "l", "i", "g", "h", "t", "s", "_",
                                     "s", "e", "e", "n", "_", "i", "n", "_",
                                     "l", "a", "s", "t", "_", "1", "5", "m">>),
        retain |-> TRUE],
       [payload |-> NatToDigits(queue_size),
        topic |-> LegacyStatsTopic(<<"q", "u", "e", "u", "e", "_",
                                     "s", "i", "z", "e">>),
        retain |-> TRUE],
       [payload |-> NatToDigits(messages_per_minute),
        topic |-> LegacyStatsTopic(<<"m", "e", "s", "s", "a", "g", "e", "s",
                                     "_", "p", "e", "r", "_",
                                     "m", "i", "n", "u", "t", "e">>),
        retain |-> TRUE] >>

\* The cache after publish() recorded samples under the keys first..last.
RECURSIVE CacheSetAll(_, _, _, _, _)
CacheSetAll(cache, first, last, t, ttl) ==
    IF first > last THEN cache
    ELSE CacheSetAll(CacheSet(cache, first, t, ttl), first + 1, last, t, ttl)

\* Lines 88-107 and 171-185: the sleep of get_stats is over; it reads the
\* three values and queues them, publish_stats_queue_messages takes them
\* and calls publish three times, and get_stats sleeps again.  The broker
\* answers the three calls alike: rc == 0 ("ok"), another rc ("fail"), or
\* the first call raises ("raise") and the handler of lines 183-185 logs
\* it.  last_successful_message is not touched.
LegacyPublishStats(result) ==
    /\ ~exited
    /\ now >= (IF st_pc = "start" THEN LegacyStatsPeriod ELSE st_wake)
    /\ st_pc' = "sleeping"
    /\ st_wake' = now + LegacyStatsPeriod
    /\ LET calls == LegacyStatsCalls(CacheLen(flights_cache, now),
                                     Len(location_queue),
                                     CacheLen(messages_cache, now))
           made == IF result = "raise" THEN 1 ELSE 3
       IN  /\ stats_sent' = Append(stats_sent,
                   [calls |-> SubSeq(calls, 1, made),
                    failed |-> IF result = "raise" THEN 1 ELSE 0])
           /\ messages_cache' =
                  IF result = "ok"
                  THEN CacheSetAll(messages_cache, uuid_next, uuid_next + 2,
                                   now, MessagesTtl)
                  ELSE messages_cache
           /\ failed_messages_cache' =
                  IF result = "fail"
                  THEN CacheSetAll(failed_messages_cache, uuid_next,
                                   uuid_next + 2, now, MessagesTtl)
                  ELSE failed_messages_cache
           /\ uuid_next' = IF result = "raise" THEN uuid_next
                           ELSE uuid_next + 3
    /\ UNCHANGED <<now, running, callsigns, flights_cache, location_queue,
                   rd_pc, rd_wake, rd_pending, rd_fails, lines_read, pub_pc,
                   sent, pushed, popped, accepted, accepted_at, last_successful_message,
                   wd_wake, exited, rd_error, fn_vars>>

\* ---------------------------------------- legacy-main.py: watchdog thread

\* Mutant: no startup grace, an unset timestamp counts as time 0.
StaleNoGrace(last, t) ==
    t - (IF IsNone(last) THEN 0 ELSE Val(last)) >= WatchdogTimeout

\* Mutant: the timeout is taken for 10 hours.
StaleHours(last, t) == ~IsNone(last) /\ t - Val(last) > 60 * WatchdogTimeout

\* Line 191: the test the watchdog makes when it wakes.
Stale(last, t) == ~IsNone(last) /\ t - Val(last) > WatchdogTimeout

\* Lines 189-194: time.sleep(60) is over; exit or sleep again.
WatchdogCheck ==
    /\ ~exited
    /\ now >= wd_wake
    /\ IF Stale(last_successful_message, now)
       THEN exited' = TRUE /\ UNCHANGED wd_wake
       ELSE wd_wake' = now + WatchdogPeriod /\ UNCHANGED exited
    /\ UNCHANGED <<now, running, callsigns, flights_cache, messages_cache,
                   location_queue, rd_pc, rd_wake, rd_pending, rd_fails,
                   lines_read, pub_pc, sent, pushed, popped, accepted, accepted_at,
                   last_successful_message, failed_messages_cache,
                   uuid_next>>
    /\ UNCHANGED <<adapter_vars, fn_vars>>

\* The clock readings a run of legacy-main.py passes through lie 600 seconds
\* apart; a sleeping thread wakes at the first reading at or after the end
\* of its sleep.
LegacyTickSteps == {600}

LegacyTick ==
    /\ ~exited
    /\ \E d \in LegacyTickSteps :
           /\ now + d <= MaxLegacyTime
           /\ now' = now + d
    /\ flights_cache' = CacheExpire(flights_cache, now')
    /\ messages_cache' = CacheExpire(messages_cache, now')
    /\ failed_messages_cache' = CacheExpire(failed_messages_cache, now')
    /\ UNCHANGED <<running, callsigns, location_queue, rd_pc, rd_wake,
                   rd_pending, rd_fails, lines_read, pub_pc, sent, pushed,
                   popped, accepted, accepted_at, last_successful_message, uuid_next,
                   wd_wake, exited>>
    /\ UNCHANGED <<adapter_vars, fn_vars>>

LegacyNext ==
    \/ LegacyConnectOk
    \/ LegacyConnectFail
    \/ \E line \in LegacyLines : LegacyReadLine(line)
    \/ LegacyPut
    \/ LegacyReadEOF
    \/ LegacyReaderWake
    \/ \E result \in {"ok", "fail", "raise"} : LegacyPublishLocation(result)
    \/ WatchdogCheck
    \/ LegacyTick

LegacySpec == Init /\ [][LegacyNext]_vars

\* The clock of a run with the statistics threads.
LegacyStatsTick ==
    /\ ~exited
    /\ \E d \in LegacyTickSteps :
           /\ now + d <= MaxLegacyStatsTime
           /\ now' = now + d
    /\ flights_cache' = CacheExpire(flights_cache, now')
    /\ messages_cache' = CacheExpire(messages_cache, now')
    /\ failed_messages_cache' = CacheExpire(failed_messages_cache, now')
    /\ UNCHANGED <<running, callsigns, location_queue, rd_pc, rd_wake,
                   rd_pending, rd_fails, lines_read, pub_pc, sent, pushed,
                   popped, accepted, accepted_at, last_successful_message, uuid_next,
                   wd_wake, exited, adapter_vars, fn_vars>>

\* legacy-main.py with its statistics threads.
LegacyStatsNext ==
    \/ LegacyConnectOk
    \/ LegacyConnectFail
    \/ \E line \in LegacyLines : LegacyReadLine(line)
    \/ LegacyPut
    \/ LegacyReadEOF
    \/ LegacyReaderWake
    \/ \E result \in {"ok", "fail", "raise"} : LegacyPublishLocation(result)
    \/ \E result \in {"ok", "fail", "raise"} : LegacyPublishStats(result)
    \/ WatchdogCheck
    \/ LegacyStatsTick

LegacyStatsSpec == Init /\ [][LegacyStatsNext]_vars

\* ------------------------------------------------------- fair scheduling

\* The reader thread and the clock keep going: a thread that can take its
\* next step is scheduled, and time passes.
FairSpec ==
    /\ Spec
    /\ WF_vars(ReaderStart)
    /\ WF_vars(ReaderWake)
    /\ WF_vars(Tick)

\* The watchdog thread is scheduled when its sleep is over, and time passes.
LegacyFairSpec ==
    /\ LegacySpec
    /\ WF_vars(WatchdogCheck)
    /\ WF_vars(LegacyTick)

\* ------------------------------------------- the functions on their own

\* The pieces the texts given to parse and sanitize_topic are made of.
LineTokens == {MSG, <<"S", "T", "A">>, <<",">>, <<" ">>, <<"\n">>}

TopicTokens == {<<"+">>, <<"#">>, <<" ">>, <<"ä">>, <<"ö">>, <<"ü">>,
                <<"Ä">>, <<"Ö">>, <<"Ü">>, <<"ß">>, <<"A">>, <<"-">>}

\* The texts of up to n tokens.
Texts(tokens, n) ==
    {Concat(seq) : seq \in UNION {[1..k -> tokens] : k \in 0..n}}

FnInputs == Texts(LineTokens, MaxTokens) \cup Texts(TopicTokens, MaxTokens)

FnInit == ProgramInit /\ fn_in \in FnInputs

\* parse(fn_in)
Decode ==
    /\ fn_pc = "idle"
    /\ fn_parsed' = parse(fn_in)
    /\ fn_pc' = "parsed"
    /\ UNCHANGED <<program_vars, fn_in, fn_topic>>

\* sanitize_topic(fn_in), and sanitize_topic of its result.
Sanitize ==
    /\ fn_pc \in {"idle", "sanitized"}
    /\ fn_topic' = sanitize_topic(IF fn_pc = "idle" THEN fn_in ELSE fn_topic)
    /\ fn_pc' = IF fn_pc = "idle" THEN "sanitized" ELSE "sanitized_twice"
    /\ UNCHANGED <<program_vars, fn_in, fn_parsed>>

FnNext == Decode \/ Sanitize

FnSpec == FnInit /\ [][FnNext]_vars

\* ------------------------------------------------------------ properties

Indices(q) == 1..Len(q)

\* The events of a log that carry tag n.
Tagged(q, n) == {k \in Indices(q) : q[k].n = n}

\* C1: no two forwarded location publishes for the same aircraft id are
\* less than 5 seconds apart (of two events for one id dequeued within 5
\* seconds only the first is forwarded).
C1_DebounceSafety ==
    \A i \in Indices(sent) : \A j \in Indices(sent) :
        (i < j /\ sent[i].ev.icao24 = sent[j].ev.icao24)
            => sent[j].at - sent[i].at >= DebounceSeconds

\* No publish was accepted for the event's aircraft id, or the last one
\* lies at least 5 seconds back.
Due(e) ==
    \A k \in Indices(sent) :
        sent[k].ev.icao24 = e.icao24 => now - sent[k].at >= DebounceSeconds

\* C2: an event the publisher dequeues is forwarded to the publish
\* collaborator whenever no publish was accepted before for its aircraft id
\* or the last accepted one lies at least 5 seconds back.
C2_DebounceForwardsDue ==
    [][\A i \in Indices(location_queue) :
          (Tagged(location_queue', location_queue[i].n) = {}
              /\ Due(location_queue[i]))
          => /\ Len(sent') = Len(sent) + 1
             /\ sent'[Len(sent')].ev = location_queue[i]
             /\ sent'[Len(sent')].at = now]_vars

C2_Witness ==
    \E i \in Indices(sent) : \E j \in Indices(sent) :
        /\ i < j
        /\ sent[i].ev.icao24 = sent[j].ev.icao24
        /\ sent[j].at - sent[i].at >= DebounceSeconds

\* A callsign is known for record k of the log: this record or an earlier
\* one with the same aircraft id carried a callsign that is not empty.
CallsignKnown(k) ==
    \E j \in 1..k :
        /\ accepted[j].icao24 = accepted[k].icao24
        /\ ~IsNone(accepted[j].callsign)
        /\ Val(accepted[j].callsign) # <<>>

\* The event of record k was put on the queue, or is being put.
Enqueued(k) ==
    \/ Tagged(pushed, accepted[k].n) # {}
    \/ (~IsNone(rd_pending) /\ Val(rd_pending).n = accepted[k].n)

\* C3: an accepted record is put on the queue if and only if it has both
\* coordinates and a callsign is known for its aircraft id, from this
\* record or an earlier one with the same id.
C3_Eligibility ==
    \A k \in Indices(accepted) :
        Enqueued(k) <=> (/\ ~IsNone(accepted[k].lat)
                         /\ ~IsNone(accepted[k].lon)
                         /\ CallsignKnown(k))

\* The sanitized form of one character of a callsign.
SanitizedChar(c) ==
    CASE c \in {"+", "#", " "} -> <<"-">>
      [] c = "ä" -> <<"a", "e">>
      [] c = "ö" -> <<"o", "e">>
      [] c = "ü" -> <<"u", "e">>
      [] c = "Ä" -> <<"A", "e">>
      [] c = "Ö" -> <<"O", "e">>
      [] c = "Ü" -> <<"U", "e">>
      [] c = "ß" -> <<"s", "s">>
      [] OTHER -> <<c>>

\* The text before and after the first comma of a payload.
BeforeComma(s) == split(s)[1]
AfterComma(s) == join(Tail(split(s)))

\* C4: every forwarded event makes exactly one call to the publish
\* collaborator; its topic is {namespace}/flights/{sanitized callsign}/location
\* for the callsign the event carries, its payload reads back as the
\* event's latitude and longitude, and it is retained.
C4_ForwardingFormat ==
    /\ Len(sent) = Len(popped)
    /\ \A k \in Indices(sent) :
           LET e == sent[k].ev
               c == sent[k].call
           IN  /\ e = popped[k]
               /\ \E j \in Indices(pushed) : pushed[j] = e
               /\ c.topic =
                      base_topic \o <<"/", "f", "l", "i", "g", "h", "t", "s", "/">>
                          \o Concat([i \in Indices(Val(e.callsign)) |->
                                         SanitizedChar(Val(e.callsign)[i])])
                          \o <<"/", "l", "o", "c", "a", "t", "i", "o", "n">>
               /\ Len(split(c.payload)) = 2
               /\ FloatOfText(BeforeComma(c.payload)) = e.lat
               /\ FloatOfText(AfterComma(c.payload)) = e.lon
               /\ c.retain = TRUE

C4_Witness ==
    \E k \in Indices(sent) :
        /\ sent[k].call.topic =
               <<"o", "/", "p", "/", "f", "l", "i", "g", "h", "t", "s", "/",
                 "T", "-", "1", "/", "l", "o", "c", "a", "t", "i", "o", "n">>
        /\ sent[k].call.payload =
               <<"5", "1", ".", "6", ",", "-", "0", ".", "1", "3">>
        /\ callsigns[Some(IcaoA)] # <<"T", "+", "1">>

\* C5: the queue never holds more than its capacity, a put on a full queue
\* waits, and no event is lost or duplicated: every event put is either
\* still in the queue or was taken from it exactly once.
C5_Backpressure ==
    /\ Len(location_queue) <= QueueMaxSize
    /\ Len(pushed) = Len(popped) + Len(location_queue)
    /\ \A j \in Indices(pushed) :
           Cardinality(Tagged(popped, pushed[j].n))
               + Cardinality(Tagged(location_queue, pushed[j].n)) = 1
    /\ (rd_pc = "putting") <=> ~IsNone(rd_pending)
    /\ ~IsNone(rd_pending) => Tagged(pushed, Val(rd_pending).n) = {}

\* The reader waits in put() on a full queue.
C5_Witness ==
    /\ rd_pc = "putting"
    /\ Len(location_queue) = QueueMaxSize
    /\ ~IsNone(rd_pending)

\* C6: the publisher dequeues the events in exactly the order in which the
\* reader put them.
C6_Fifo ==
    /\ Len(popped) <= Len(pushed)
    /\ \A k \in Indices(popped) : popped[k] = pushed[k]

C6_Witness ==
    /\ Len(popped) >= 2
    /\ popped[1].icao24 = popped[2].icao24
    /\ popped[1].lat # popped[2].lat

\* C7: the watchdog never ends the process while no publish has succeeded
\* yet or while less than 10 minutes have passed since the last success.
C7_WatchdogSafety ==
    exited => /\ ~IsNone(last_successful_message)
              /\ now - Val(last_successful_message) >= WatchdogTimeout

\* The watchdog made a check at the current clock reading, exactly 10
\* minutes after the last success, and the process lives on.
C7_Witness ==
    /\ ~exited
    /\ wd_wake = now + WatchdogPeriod
    /\ last_successful_message = Some(now - WatchdogTimeout)

\* More than 10 minutes have passed since the last successful publish.
TooOld ==
    /\ ~IsNone(last_successful_message)
    /\ now - Val(last_successful_message) > WatchdogTimeout

\* C8: once a publish has succeeded and more than 10 minutes pass without
\* another success, the watchdog's next check ends the process: no check
\* made in that state puts the watchdog back to sleep, and the process ends
\* unless a publish succeeds first.
C8_WatchdogLiveness ==
    /\ [][TooOld /\ wd_wake' # wd_wake => FALSE]_vars
    /\ (TooOld ~> (exited \/ ~TooOld))

C8_Witness ==
    /\ exited
    /\ TooOld
    /\ rd_pc = "dead"

\* C9: a failed connect is never fatal: it is followed by a 5 second sleep
\* and the next attempt, and the reader loop ends only after running was set
\* to False.  The reader of main.py behaves so; the reader of legacy-main.py
\* connects outside its try block and ends at the first failed connect.
C9_ConnectRetry ==
    /\ [](rd_pc \in {"start", "connecting", "reading", "putting",
                     "sleep_closed", "sleep_error", "done"})
    /\ [](rd_pc = "done" => ~running)
    /\ [][rd_pc = "connecting" /\ rd_pc' # "connecting"
             => \/ rd_pc' = "reading"
                \/ rd_pc' = "sleep_error" /\ rd_wake' = now + ReconnectDelay]_vars
    /\ [][rd_pc = "sleep_error" /\ rd_pc' # "sleep_error"
             => /\ now >= rd_wake
                /\ rd_pc' = IF running THEN "connecting" ELSE "done"]_vars

\* The connection state of spec section 4.4 at each place of the reader
\* thread.  The sleep after a failed connect belongs to Connecting: the
\* attempt is retried.
ConnState(pc) ==
    CASE pc \in {"start", "sleep_closed"} -> "Disconnected"
      [] pc \in {"connecting", "sleep_error"} -> "Connecting"
      [] pc \in {"reading", "putting"} -> "Connected"
      [] OTHER -> "Stopped"

\* C10: a zero-length read moves the reader from Connected to Disconnected,
\* the next connection attempt starts no sooner than 5 seconds later, the
\* connection state only moves Disconnected -> Connecting -> Connected ->
\* Disconnected while the thread runs, and while the process runs every
\* Disconnected state is followed by a connection attempt.
C10_Reconnect ==
    /\ [][ConnState(rd_pc') # ConnState(rd_pc) /\ ConnState(rd_pc') # "Stopped"
             => <<ConnState(rd_pc), ConnState(rd_pc')>> \in
                    {<<"Disconnected", "Connecting">>,
                     <<"Connecting", "Connected">>,
                     <<"Connected", "Disconnected">>}]_vars
    /\ [][ConnState(rd_pc) = "Connected" /\ ConnState(rd_pc') = "Disconnected"
             => rd_wake' = now + ReconnectDelay]_vars
    /\ [][rd_pc = "sleep_closed" /\ rd_pc' # "sleep_closed"
             => now >= rd_wake]_vars
    /\ ((ConnState(rd_pc) = "Disconnected" /\ rd_wake <= MaxTime)
            ~> (rd_pc = "connecting" \/ ~running))

C10_Witness ==
    /\ rd_pc = "connecting"
    /\ running
    /\ rd_fails = 0
    /\ lines_read > 0
    /\ now >= ReconnectDelay

\* C12: every event taken from the queue is handed to send_msg at most
\* once, an event that was taken is never on the queue again (nothing is
\* retried or put back after a failed publish), and the publisher loop ends
\* only after running was set to False.
C12_AtMostOnce ==
    /\ \A k1, k2 \in Indices(sent) :
           sent[k1].ev.n = sent[k2].ev.n => k1 = k2
    /\ \A k1, k2 \in Indices(popped) :
           popped[k1].n = popped[k2].n => k1 = k2
    /\ \A k \in Indices(location_queue) :
           Tagged(popped, location_queue[k].n) = {}
    /\ pub_pc = "done" => ~running

\* Two publishes failed one after the other: neither left a success sample,
\* the queue is empty and the publisher is still in its loop.
C12_Witness ==
    /\ Len(sent) >= 2
    /\ messages_cache = EmptyDict
    /\ now = 0
    /\ location_queue = <<>>
    /\ pub_pc = "loop"
    /\ running

\* The text before the first comma of a line.
FirstField(s) ==
    IF \E i \in Indices(s) : s[i] = ","
    THEN SubSeq(s, 1, (CHOOSE i \in Indices(s) :
                           s[i] = "," /\ \A j \in 1..(i - 1) : s[j] # ",") - 1)
    ELSE s

\* Python's str.strip(): the text without leading and trailing whitespace.
Stripped(s) ==
    LET keep == {i \in Indices(s) : s[i] \notin Whitespace}
    IN  IF keep = {} THEN <<>>
        ELSE SubSeq(s, CHOOSE i \in keep : \A j \in keep : i <= j,
                       CHOOSE i \in keep : \A j \in keep : i >= j)

\* C14 as stated: parse returns None for every line whose first
\* comma-separated field is not the literal MSG.
C14_RejectsNonMsg ==
    (fn_pc = "parsed" /\ FirstField(fn_in) # MSG) => fn_parsed = None

\* C14 (amended): parse returns None for every line whose first
\* comma-separated field, taken after the line is stripped of leading and
\* trailing whitespace, is not the literal MSG.
C14_RejectsNonMsgStripped ==
    (fn_pc = "parsed" /\ FirstField(Stripped(fn_in)) # MSG)
        => fn_parsed = None

\* A line whose first field is STA and whose second field is MSG was
\* rejected.
C14_Witness ==
    /\ fn_pc = "parsed"
    /\ fn_in = <<"S", "T", "A", ",", "M", "S", "G">>
    /\ fn_parsed = None

\* C15: sanitize_topic replaces +, # and space by - and each umlaut and
\* sharp s by its two letters, and leaves every other character unchanged
\* and in place; the result holds no +, # or space, and sanitizing the
\* result again changes nothing.
C15_Sanitize ==
    /\ fn_pc \in {"sanitized", "sanitized_twice"} =>
           /\ fn_topic = Concat([i \in Indices(fn_in) |->
                                     SanitizedChar(fn_in[i])])
           /\ \A i \in Indices(fn_topic) : fn_topic[i] \notin {"+", "#", " "}

C15_Witness ==
    /\ fn_pc = "sanitized_twice"
    /\ fn_in = <<"#", "Ü", "A">>
    /\ fn_topic = <<"-", "U", "e", "A">>

\* C11: once running is False no loop stays blocked in a queue operation
\* for ever: a reader that waits in put() on a full queue still has a
\* publisher that can take an element.
C11_ShutdownObserved ==
    (~running /\ rd_pc = "putting")
        => (Len(location_queue) < QueueMaxSize \/ pub_pc # "done")

\* The number a decimal text stands for; the text has no leading zero.
IsDecimalOf(text, n) ==
    /\ text # <<>>
    /\ \A i \in Indices(text) : text[i] \in DigitSet
    /\ (Len(text) > 1 => text[1] # "0")
    /\ DigitsToNat(text) = n

\* The topics of the three statistics, in the order they are sent.
StatsTopics ==
    << <<"o", "/", "p", "/", "s", "t", "a", "t", "s", "/", "f", "l", "i", "g", "h", "t", "s", "_", "s", "e", "e", "n", "_", "i", "n", "_", "l", "a", "s", "t", "_", "1", "5", "m">>,
       <<"o", "/", "p", "/", "s", "t", "a", "t", "s", "/", "q", "u", "e", "u", "e", "_", "s", "i", "z", "e">>,
       <<"o", "/", "p", "/", "s", "t", "a", "t", "s", "/", "m", "e", "s", "s", "a", "g", "e", "s", "_", "p", "e", "r", "_", "m", "i", "n", "u", "t", "e">> >>

\* The three values a statistics cycle reports, read from the state the
\* cycle starts in.
StatsValues ==
    << Cardinality({k \in DOMAIN flights_cache : flights_cache[k] > now}),
       Len(location_queue),
       Cardinality({k \in DOMAIN messages_cache : messages_cache[k] > now}) >>

C16_ReadErrorReconnects ==
    rd_error = "read" => rd_pc \notin {"reading", "putting"}

\* C17: a line that is skipped or whose processing raises leaves the reader
\* Connected, and while the process runs the reader leaves Connected only
\* at a read that returned no line (end of stream), for the 5 second sleep
\* before it reconnects.
C17_LineIsolation ==
    /\ [][lines_read' # lines_read
             => rd_pc = "reading" /\ rd_pc' \in {"reading", "putting"}]_vars
    /\ [][(running /\ rd_pc \in {"reading", "putting"}
                   /\ rd_pc' \notin {"reading", "putting"})
             => /\ lines_read' = lines_read
                /\ rd_error' = rd_error
                /\ rd_pc' = "sleep_closed"
                /\ rd_wake' = now + ReconnectDelay]_vars

\* The first line of the connection did not decode, and the second line
\* was read from the same connection and accepted.
C17_Witness ==
    /\ rd_error = "decode"
    /\ lines_read = 2
    /\ Len(accepted) = 1
    /\ accepted[1].n = 2
    /\ rd_pc = "reading"

\* C18: every location publish attempt records exactly one sample: it
\* changes the set of success samples or the set of failure samples, never
\* both and never neither.
C18_ThroughputAccounting ==
    [][Len(sent') > Len(sent) =>
         (messages_cache' # messages_cache)
             # (failed_messages_cache' # failed_messages_cache)]_vars

\* C20: the exception of a statistics send_msg never ends the statistics
\* loop: after every cycle, failed or not, the thread is back at its loop
\* test, from where it starts the next 60 second sleep while running is
\* True and ends only when running is False.
C20_ReporterResilience ==
    /\ [](st_pc \in {"start", "sleeping", "done"})
    /\ [](st_pc = "done" => ~running)
    /\ [][Len(stats_sent') > Len(stats_sent) => st_pc' = "start"]_vars
    /\ [][st_pc = "start" /\ st_pc' # "start"
             => IF running
                THEN st_pc' = "sleeping" /\ st_wake' = now + StatsPeriod
                ELSE st_pc' = "done"]_vars

\* The first send_msg of a cycle raised and the thread sleeps again.
C20_Witness ==
    /\ Len(stats_sent) = 1
    /\ stats_sent[1].failed = 1
    /\ st_pc = "sleeping"
    /\ running

\* C19: last_successful_message changes only in a step of the location
\* publisher whose publish succeeded, and then to the current time; every
\* successful location publish sets it to the current time; a failed
\* publish, the statistics threads, the reader and the watchdog leave it
\* alone; once set it is never None again.
C19_TimestampDiscipline ==
    /\ [][last_successful_message' # last_successful_message
             => /\ Len(popped') = Len(popped) + 1
                /\ uuid_next \in DOMAIN messages_cache'
                /\ last_successful_message' = Some(now)]_vars
    /\ [][(Len(popped') = Len(popped) + 1
                /\ uuid_next \in DOMAIN messages_cache')
             => last_successful_message' = Some(now)]_vars
    /\ [][~IsNone(last_successful_message)
             => ~IsNone(last_successful_message')]_vars

\* The timestamp was set at time 0; later a location publish failed and a
\* statistics cycle was published, and the timestamp still reads 0.
C19_Witness ==
    /\ last_successful_message = Some(0)
    /\ now > 0
    /\ failed_messages_cache # EmptyDict
    /\ Len(stats_sent) >= 1
    /\ Len(popped) >= 2

\* C21: the callsigns table never holds an empty callsign, and no event
\* that was put on the queue, is being put, or was taken by the publisher
\* carries an empty callsign.
C21_NoEmptyCallsign ==
    /\ \A k \in DOMAIN callsigns : callsigns[k] # <<>>
    /\ \A i \in Indices(pushed) : pushed[i].callsign # Some(<<>>)
    /\ \A i \in Indices(popped) : popped[i].callsign # Some(<<>>)
    /\ ~IsNone(rd_pending) => Val(rd_pending).callsign # Some(<<>>)

\* The lines of the feed that begin with MSG and have fewer than the 22
\* fields the decoder accesses.
ShortLines ==
    {line \in MalformedLines :
        /\ FirstField(Stripped(line)) = MSG
        /\ Len(split(Stripped(line))) < 22}

\* C24: the pass of the reader over a short MSG line yields no record,
\* updates neither callsigns nor flights_cache and puts nothing on the
\* queue.
C24_ShortLinesSkipped ==
    [][\A line \in ShortLines :
          ReadLine(line) => UNCHANGED <<accepted, callsigns, flights_cache,
                                        location_queue, pushed,
                                        rd_pending>>]_vars

\* C25: every event on the queue, put on it before, or being put has an
\* icao24, and neither callsigns nor flights_cache has the key None.
C25_EventsHaveIdent ==
    /\ \A i \in Indices(location_queue) : ~IsNone(location_queue[i].icao24)
    /\ \A i \in Indices(pushed) : ~IsNone(pushed[i].icao24)
    /\ ~IsNone(rd_pending) => ~IsNone(Val(rd_pending).icao24)
    /\ None \notin DOMAIN callsigns
    /\ None \notin DOMAIN flights_cache

\* The aircraft ids observed less than 15 minutes before time t at a
\* moment when a callsign was known for them.
SeenIds(t) ==
    {accepted[k].icao24 :
        k \in {j \in Indices(accepted) :
                  CallsignKnown(j) /\ t - accepted_at[j] < FlightsTtl}}

\* C22: the flights_seen value a statistics cycle sends is the number of
\* aircraft ids observed within the preceding 15 minutes at a moment when
\* a callsign was known for them.
C22_SeenWindow ==
    [][Len(stats_sent') > Len(stats_sent) =>
         IsDecimalOf(stats_sent'[Len(stats_sent')].calls[1].payload,
                     Cardinality(SeenIds(now)))]_vars

\* The records up to record k with the aircraft id of record k.
SameIdent(k) == {j \in 1..k : accepted[j].icao24 = accepted[k].icao24}

\* The state of the aircraft of record k has lived on from record j: no two
\* observations of the id in a row, from j to k, lie 15 minutes or more
\* apart.
Unbroken(j, k) ==
    \A i \in SameIdent(k) :
        j < i =>
            LET before == CHOOSE h \in SameIdent(k) :
                              /\ h < i
                              /\ \A g \in SameIdent(k) : g < i => g <= h
            IN  accepted_at[i] - accepted_at[before] < FlightsTtl

\* C23: a record is put on the queue only if a record of the same aircraft
\* id, this one or an earlier one, carried a callsign and the id was never
\* unobserved for 15 minutes since: after such a gap the callsign is
\* forgotten.
C23_StateEviction ==
    \A k \in Indices(accepted) :
        Enqueued(k) =>
            \E j \in SameIdent(k) :
                /\ ~IsNone(accepted[j].callsign)
                /\ Unbroken(j, k)

\* C26: every location publish that succeeded adds one entry to the
\* success set: the number of live entries of messages_cache grows by one,
\* also when an earlier publish was recorded at the same clock reading.
C26_OneSamplePerPublish ==
    [][PublishLocation(TRUE) =>
         CacheLen(messages_cache', now') = CacheLen(messages_cache, now) + 1]_vars
====
